---------------------------- MODULE Spec2Model ----------------------------
(***************************************************************************)
(* Turbine selection chart: the console script ("Turbine Selection         *)
(* Chart.py", src/unnamed/part_000) and the desktop form                   *)
(* (src/TurbineChartGUI.py).                                               *)
(*                                                                         *)
(* Numbers.  The programs compute with Python floats.  The model computes  *)
(* with exact decimals: a flow rate Q is an integer number of thousandths  *)
(* of a m3/s, a head H an integer number of tenths of a metre, and a power *)
(* is a signed decimal  mag * 10^-exp  whose magnitude is an unbounded     *)
(* natural number (a little-endian sequence of base-10^4 limbs), so that   *)
(* no product exceeds the 32-bit integers of TLC.                          *)
(***************************************************************************)
EXTENDS Integers, Sequences, FiniteSets, TLC

-----------------------------------------------------------------------------
(* Unbounded naturals: <<>> is 0, the last limb of a number is not 0.       *)

Base == 10^4

RECURSIVE Strip0(_)
Strip0(s) ==
    IF s = <<>> \/ s[Len(s)] # 0 THEN s ELSE Strip0(SubSeq(s, 1, Len(s) - 1))

RECURSIVE BigOf(_)
BigOf(n) == IF n = 0 THEN <<>> ELSE <<n % Base>> \o BigOf(n \div Base)

RECURSIVE MulCarry(_, _, _)
MulCarry(s, k, c) ==
    IF s = <<>>
    THEN BigOf(c)
    ELSE LET t == Head(s) * k + c
         IN  <<t % Base>> \o MulCarry(Tail(s), k, t \div Base)

(* s * k for a natural k of at most 200000 *)
BigMul(s, k) == Strip0(MulCarry(s, k, 0))

RECURSIVE CmpFrom(_, _, _)
CmpFrom(a, b, i) ==
    IF i = 0 THEN 0
    ELSE IF a[i] < b[i] THEN -1
    ELSE IF a[i] > b[i] THEN 1
    ELSE CmpFrom(a, b, i - 1)

(* -1, 0, 1 as a < b, a = b, a > b *)
BigCmp(a, b) ==
    IF Len(a) < Len(b) THEN -1
    ELSE IF Len(a) > Len(b) THEN 1
    ELSE CmpFrom(a, b, Len(a))

(* long division by a natural d of at most 200000: <<quotient, remainder>> *)
RECURSIVE DivFrom(_, _, _, _)
DivFrom(s, d, i, rem) ==
    IF i = 0 THEN <<<<>>, rem>>
    ELSE LET cur  == rem * Base + s[i]
             rest == DivFrom(s, d, i - 1, cur % d)
         IN  <<rest[1] \o <<cur \div d>>, rest[2]>>

BigDivMod(s, d) ==
    LET r == DivFrom(s, d, Len(s), 0) IN <<Strip0(r[1]), r[2]>>

RECURSIVE BigDivPow10(_, _)
BigDivPow10(s, n) ==
    IF n = 0 THEN <<s, TRUE>>
    ELSE LET r    == BigDivMod(s, 10)
             rest == BigDivPow10(r[1], n - 1)
         IN  <<rest[1], r[2] = 0 /\ rest[2]>>

(* the value of a number of at most two limbs *)
BigVal(s) ==
    IF s = <<>> THEN 0
    ELSE IF Len(s) = 1 THEN s[1]
    ELSE s[1] + Base * s[2]

-----------------------------------------------------------------------------
(* Signed decimals  (-1)^neg * mag * 10^-exp.                               *)

Abs(n) == IF n < 0 THEN -n ELSE n

Dec(n, e) == [neg |-> n < 0, mag |-> BigOf(Abs(n)), exp |-> e]

(* a * (n * 10^-e) *)
DecMul(a, n, e) ==
    LET m == BigMul(a.mag, Abs(n))
    IN  [neg |-> (m # <<>>) /\ (a.neg # (n < 0)), mag |-> m, exp |-> a.exp + e]

(* a / 10^k, exact *)
DecDivPow10(a, k) == [a EXCEPT !.exp = a.exp + k]

(* a < b for two decimals of the same exponent *)
DecLess(a, b) ==
    IF a.neg /\ ~b.neg THEN TRUE
    ELSE IF ~a.neg /\ b.neg THEN FALSE
    ELSE IF a.neg THEN BigCmp(a.mag, b.mag) = 1
    ELSE BigCmp(a.mag, b.mag) = -1

(* a rounded to d decimal places, as a signed integer number of 10^-d:      *)
(* to the nearest, an exact tie to the even neighbour                       *)
DecRound(a, d) ==
    LET cut  == BigDivPow10(a.mag, a.exp - d - 1)
        last == BigDivMod(cut[1], 10)
        q    == BigVal(last[1])
        up   == \/ last[2] > 5
                \/ last[2] = 5 /\ ~cut[2]
                \/ last[2] = 5 /\ cut[2] /\ q % 2 = 1
        r    == IF up THEN q + 1 ELSE q
    IN  IF a.neg THEN -r ELSE r


-----------------------------------------------------------------------------
(* float(text): a text is a sequence of characters.  Python strips white    *)
(* space, reads an optional sign and a decimal numeral with at most one     *)
(* point and at least one digit, and raises ValueError otherwise.  (The     *)
(* texts of the model hold no exponent, "inf", "nan" or "_".)  The value is *)
(* given scaled by 10^places; the texts of the model carry at most `places` *)
(* fractional digits, so the scaled integer is the exact value.             *)

Digits == <<"0", "1", "2", "3", "4", "5", "6", "7", "8", "9">>

IsDigit(c) == \E i \in 1..Len(Digits) : Digits[i] = c

DigitVal(c) == (CHOOSE i \in 1..Len(Digits) : Digits[i] = c) - 1

RECURSIVE LStrip(_)
LStrip(t) == IF t # <<>> /\ Head(t) = " " THEN LStrip(Tail(t)) ELSE t

RECURSIVE RStrip(_)
RStrip(t) ==
    IF t # <<>> /\ t[Len(t)] = " " THEN RStrip(SubSeq(t, 1, Len(t) - 1)) ELSE t

RECURSIVE DigitsVal(_, _)
DigitsVal(ds, acc) ==
    IF ds = <<>> THEN acc ELSE DigitsVal(Tail(ds), acc * 10 + DigitVal(Head(ds)))

RECURSIVE Zeros(_)
Zeros(n) == IF n <= 0 THEN <<>> ELSE <<"0">> \o Zeros(n - 1)

ValueError == [ok |-> FALSE, val |-> 0]

ParseFloat(text, places) ==
    LET s     == RStrip(LStrip(text))
        sign  == s # <<>> /\ Head(s) \in {"+", "-"}
        body  == IF sign THEN Tail(s) ELSE s
        dots  == {i \in 1..Len(body) : body[i] = "."}
        valid == /\ \A i \in 1..Len(body) : IsDigit(body[i]) \/ body[i] = "."
                 /\ Cardinality(dots) <= 1
                 /\ \E i \in 1..Len(body) : IsDigit(body[i])
        point == IF dots = {} THEN Len(body) + 1 ELSE CHOOSE i \in dots : TRUE
        whole == SubSeq(body, 1, point - 1)
        frac  == SubSeq(body, point + 1, Len(body))
        mag   == DigitsVal(whole \o SubSeq(frac \o Zeros(places - Len(frac)), 1, places), 0)
    IN  IF ~valid THEN ValueError
        ELSE [ok |-> TRUE, val |-> IF Head(s) = "-" THEN -mag ELSE mag]

-----------------------------------------------------------------------------
(* matplotlib.path.Path(poly).contains_point((Q, H)) with no transform and  *)
(* radius 0: the crossing-number test of the library's point_in_path, run   *)
(* over the path's segments and the segment that closes the path.  A vertex *)
(* is <<Q in thousandths, H in tenths>>.                                    *)

Crosses(v0, v1, tx, ty) ==
    LET yflag0 == v0[2] >= ty
        yflag1 == v1[2] >= ty
    IN  /\ yflag0 # yflag1
        /\ ((v1[2] - ty) * (v0[1] - v1[1]) >= (v1[1] - tx) * (v0[2] - v1[2])) = yflag1

contains_point(poly, tx, ty) ==
    LET n == Len(poly)
        crossing == {k \in 1..n : Crosses(poly[k], poly[(k % n) + 1], tx, ty)}
    IN  Cardinality(crossing) % 2 = 1

Names(seq) == [i \in 1..Len(seq) |-> seq[i].name]


(* A figure's axes, as the calls below leave them.                          *)
NewAxes ==
    [patches |-> <<>>, curves |-> FALSE, points |-> <<>>,
     annotations |-> <<>>, title |-> <<>>, shown |-> FALSE]

NoPower == <<>>

NoOutcome == [suitable |-> <<>>, powers |-> <<>>, approx |-> NoPower, calls |-> <<>>]

-----------------------------------------------------------------------------
(* The console script, src/unnamed/part_000.                                *)

(* the envelopes, were Kaplan's (5.9, 48) mistyped as (5.9, 480)            *)
define_envelopes_typo ==
    << [name |-> "Pelton",
        pts  |-> << <<20, 1200>>, <<20, 10000>>, <<3500, 10000>>, <<9800, 3500>>,
                    <<4800, 600>>, <<38, 600>> >>],
       [name |-> "Francis",
        pts  |-> << <<200, 120>>, <<200, 360>>, <<1200, 3500>>,
                    <<9800, 3500>>, <<40000, 850>>, <<25000, 200>>, <<1600, 70>>,
                    <<320, 70>> >>],
       [name |-> "Kaplan",
        pts  |-> << <<1200, 20>>, <<500, 45>>, <<500, 70>>, <<1800, 300>>,
                    <<5900, 4800>>, <<35000, 480>>, <<100000, 180>>, <<100000, 29>>,
                    <<75000, 20>> >>] >>

define_envelopes ==
    << [name |-> "Pelton",
        pts  |-> << <<20, 1200>>, <<20, 10000>>, <<3500, 10000>>, <<9800, 3500>>,
                    <<4800, 600>>, <<38, 600>> >>],
       [name |-> "Francis",
        pts  |-> << <<200, 120>>, <<200, 360>>, <<1200, 3500>>,
                    <<9800, 3500>>, <<40000, 850>>, <<25000, 200>>, <<1600, 70>>,
                    <<320, 70>> >>],
       [name |-> "Kaplan",
        pts  |-> << <<1200, 20>>, <<500, 45>>, <<500, 70>>, <<1800, 300>>,
                    <<5900, 480>>, <<35000, 480>>, <<100000, 180>>, <<100000, 29>>,
                    <<75000, 20>> >>] >>

(* paths: name -> Path(pts + [pts[0]]); envelopes: the dict it was given,   *)
(* as the call leaves it (pts + [...] builds a new list)                    *)
plot_envelopes(ax, envelopes) ==
    [ax        |-> [ax EXCEPT !.patches = @ \o Names(envelopes)],
     paths     |-> [i \in 1..Len(envelopes) |->
                      [name |-> envelopes[i].name,
                       poly |-> envelopes[i].pts \o <<envelopes[i].pts[1]>>]],
     envelopes |-> envelopes]

(* the dashed constant-power curves and their labels; no later step reads   *)
(* which of them fall within the axes limits                                *)
plot_power_curves(ax) == [ax EXCEPT !.curves = TRUE]

(* the lookup, were it to ignore the case of the label                      *)
efficiencies_get_anycase(turbine_type) ==
    LET efficiencies == [Pelton |-> 915, Francis |-> 945, Kaplan |-> 940,
                         pelton |-> 915, francis |-> 945, kaplan |-> 940]
    IN  IF turbine_type \in DOMAIN efficiencies
        THEN efficiencies[turbine_type] ELSE 880

(* the lookup, were Pelton's 0.915 mistyped as 0.951                        *)
efficiencies_get_typo(turbine_type) ==
    LET efficiencies == [Pelton |-> 951, Francis |-> 945, Kaplan |-> 940]
    IN  IF turbine_type \in DOMAIN efficiencies
        THEN efficiencies[turbine_type] ELSE 880

(* efficiencies.get(turbine_type, 0.88), in thousandths                    *)
efficiencies_get(turbine_type) ==
    LET efficiencies == [Pelton |-> 915, Francis |-> 945, Kaplan |-> 940]
    IN  IF turbine_type \in DOMAIN efficiencies
        THEN efficiencies[turbine_type] ELSE 880

(* the power, were the head left out of the product                         *)
calculate_power_no_head(Q, H, turbine_type) ==
    LET rho == Dec(998, 0)
        efficiency == efficiencies_get(turbine_type)
    IN  DecDivPow10(
            DecMul(DecMul(DecMul(DecMul(rho, 981, 2), Q, 3), 10, 1), efficiency, 3),
            3)

(* (rho * g * Q * H * efficiency) / 1000, with rho = 998 and g = 9.81       *)
calculate_power(Q, H, turbine_type) ==
    LET rho == Dec(998, 0)
        efficiency == efficiencies_get(turbine_type)
    IN  DecDivPow10(
            DecMul(DecMul(DecMul(DecMul(rho, 981, 2), Q, 3), H, 1), efficiency, 3),
            3)

(* the list, were the search to stop at the first envelope that matches     *)
main_suitable_first(paths, Q, H) ==
    LET all == Names(SelectSeq(paths, LAMBDA p : contains_point(p.poly, Q, H)))
    IN  IF all = <<>> THEN all ELSE <<all[1]>>

(* main, step 7: suitable = [name for name, path in paths.items() if ...]   *)
main_suitable(paths, Q, H) ==
    Names(SelectSeq(paths, LAMBDA p : contains_point(p.poly, Q, H)))

(* main, lines 200-242: from the plotted point to plt.show()                *)
main_evaluate(ax, paths, Q, H) ==
    LET suitable == main_suitable(paths, Q, H)
        calculated_powers ==
            [i \in 1..Len(suitable) |->
                [turbine |-> suitable[i], power |-> calculate_power(Q, H, suitable[i])]]
        power_strings ==
            [i \in 1..Len(suitable) |->
                <<suitable[i], DecRound(calculated_powers[i].power, 2)>>]
        power_at_point == calculate_power(Q, H, "None")
        ax1 == [ax EXCEPT !.points = Append(@, <<Q, H>>)]
    IN  IF suitable # <<>>
        THEN [out |-> [suitable |-> suitable, powers |-> calculated_powers,
                       approx |-> NoPower, calls |-> suitable],
              ax  |-> [ax1 EXCEPT !.annotations = Append(@, power_strings),
                                  !.title = suitable, !.shown = TRUE]]
        ELSE [out |-> [suitable |-> suitable, powers |-> <<>>,
                       approx |-> <<power_at_point>>, calls |-> <<"None">>],
              ax  |-> [ax1 EXCEPT !.annotations =
                                      Append(@, << <<"Approx. Power",
                                                     DecRound(power_at_point, 2)>> >>),
                                  !.title = <<"None">>, !.shown = TRUE]]

-----------------------------------------------------------------------------
(* The desktop form, src/TurbineChartGUI.py.                                *)

(* the form's envelopes, were Kaplan's (100.0, 18) mistyped as (10.0, 18)   *)
gui_define_envelopes_typo ==
    << [name |-> "Pelton",
        pts  |-> << <<20, 1200>>, <<20, 10000>>, <<3500, 10000>>, <<9800, 3500>>,
                    <<4800, 600>>, <<38, 600>> >>],
       [name |-> "Francis",
        pts  |-> << <<200, 120>>, <<200, 360>>, <<1200, 3500>>,
                    <<9800, 3500>>, <<40000, 850>>, <<25000, 200>>, <<1600, 70>>,
                    <<320, 70>> >>],
       [name |-> "Kaplan",
        pts  |-> << <<1200, 20>>, <<500, 45>>, <<500, 70>>, <<1800, 300>>,
                    <<5900, 480>>, <<35000, 480>>, <<10000, 180>>, <<100000, 29>>,
                    <<75000, 20>> >>] >>

gui_define_envelopes ==
    << [name |-> "Pelton",
        pts  |-> << <<20, 1200>>, <<20, 10000>>, <<3500, 10000>>, <<9800, 3500>>,
                    <<4800, 600>>, <<38, 600>> >>],
       [name |-> "Francis",
        pts  |-> << <<200, 120>>, <<200, 360>>, <<1200, 3500>>,
                    <<9800, 3500>>, <<40000, 850>>, <<25000, 200>>, <<1600, 70>>,
                    <<320, 70>> >>],
       [name |-> "Kaplan",
        pts  |-> << <<1200, 20>>, <<500, 45>>, <<500, 70>>, <<1800, 300>>,
                    <<5900, 480>>, <<35000, 480>>, <<100000, 180>>, <<100000, 29>>,
                    <<75000, 20>> >>] >>

gui_plot_envelopes(ax, envelopes) ==
    [ax        |-> [ax EXCEPT !.patches = @ \o Names(envelopes)],
     paths     |-> [i \in 1..Len(envelopes) |->
                      [name |-> envelopes[i].name,
                       poly |-> envelopes[i].pts \o <<envelopes[i].pts[1]>>]],
     envelopes |-> envelopes]

gui_plot_power_curves(ax) == [ax EXCEPT !.curves = TRUE]

(* the form's lookup, were the values of Francis and Kaplan exchanged       *)
gui_eff_swapped(turbine) ==
    LET table == [Pelton |-> 915, Francis |-> 940, Kaplan |-> 945]
    IN  IF turbine \in DOMAIN table THEN table[turbine] ELSE 880

(* the form's lookup, were the default 0.8                                  *)
gui_eff_default(turbine) ==
    LET table == [Pelton |-> 915, Francis |-> 945, Kaplan |-> 940]
    IN  IF turbine \in DOMAIN table THEN table[turbine] ELSE 800

(* {'Pelton': 0.915, 'Francis': 0.945, 'Kaplan': 0.94}.get(turbine, 0.88)  *)
gui_eff(turbine) ==
    LET table == [Pelton |-> 915, Francis |-> 945, Kaplan |-> 940]
    IN  IF turbine \in DOMAIN table THEN table[turbine] ELSE 880

gui_calculate_power(Q, H, turbine) ==
    LET rho == Dec(998, 0)
        eff == gui_eff(turbine)
    IN  DecDivPow10(DecMul(DecMul(DecMul(DecMul(rho, 981, 2), Q, 3), H, 1), eff, 3), 3)

(* the axes, were create_plot to draw on the current axes (plt.gca())       *)
gui_subplots_gca(current) == current

(* fig, ax = plt.subplots(...): a new figure with empty axes, whatever the  *)
(* current figure holds                                                     *)
gui_subplots(current) == NewAxes

gui_suitable(paths, Q, H) ==
    Names(SelectSeq(paths, LAMBDA p : contains_point(p.poly, Q, H)))

(* create_plot(Q, H), called with `current` the current axes of pyplot      *)
create_plot(current, Q, H) ==
    LET drawn == gui_plot_envelopes(gui_subplots(current), gui_define_envelopes)
        ax1   == gui_plot_power_curves(drawn.ax)
        ax2   == [ax1 EXCEPT !.points = Append(@, <<Q, H>>)]
        suitable == gui_suitable(drawn.paths, Q, H)
        pows  == [i \in 1..Len(suitable) |->
                    [turbine |-> suitable[i],
                     power |-> gui_calculate_power(Q, H, suitable[i])]]
        ann   == [i \in 1..Len(suitable) |-> <<suitable[i], DecRound(pows[i].power, 2)>>]
        pow0  == gui_calculate_power(Q, H, "None")
    IN  IF suitable # <<>>
        THEN [envelopes |-> drawn.envelopes,
              out |-> [suitable |-> suitable, powers |-> pows,
                       approx |-> NoPower, calls |-> suitable],
              ax  |-> [ax2 EXCEPT !.annotations = Append(@, ann),
                                  !.title = suitable, !.shown = TRUE]]
        ELSE [envelopes |-> drawn.envelopes,
              out |-> [suitable |-> suitable, powers |-> <<>>,
                       approx |-> <<pow0>>, calls |-> <<"None">>],
              ax  |-> [ax2 EXCEPT !.annotations =
                                      Append(@, << <<"Approx. Power", DecRound(pow0, 2)>> >>),
                                  !.title = <<"None">>, !.shown = TRUE]]


-----------------------------------------------------------------------------
(* What the user may type: texts for Q (three decimals at most) and for H   *)
(* (one decimal at most), valid and invalid.                                *)

QTexts ==
    { <<"-", "1">>, <<"0", ".", "0", "1">>, <<"0", ".", "0", "2">>,
      <<"0", ".", "0", "5">>, <<".", "5">>, <<" ", "5", " ">>, <<"1", "0">>,
      <<"5", "0", ".", "0">>, <<"+", "1", "5", "0">>,
      <<"a", "b", "c">>, <<"1", ".", "2", ".", "3">> }

HTexts ==
    { <<"0">>, <<"1">>, <<"4", ".", "5">>, <<"1", "0">>, <<"2", "0", ".">>,
      <<"4", "8">>, <<"1", "0", "0">>, <<"2", "0", "0">>, <<"5", "0", "0">>,
      <<"2", "0", "0", "0">>, <<"-", "5">>,
      <<>> }

MaxClicks == 2

VARIABLES
    entry,        \* the program that runs: "console", "gui" or "function"
    pc,           \* main: "start", "askQ", "askH", "shown", "exit", "crashed"
    envelopes,    \* main's envelopes
    paths,        \* main's paths
    ax,           \* main's axes
    Q,            \* main's Q: <<>> until read
    H,            \* main's H: <<>> until read
    out,          \* main's suitable, calculated_powers, power_at_point
    stderr,       \* the tracebacks of uncaught exceptions
    g_envelopes,  \* create_plot's envelopes, as its last call left them
    g_nfigs,      \* the figures pyplot has created
    g_ax,         \* the axes of pyplot's current figure
    g_dialogs,    \* the error dialogs shown
    g_out,        \* create_plot's suitable, pows, pow0 in the last on_plot
    g_last,       \* how the last on_plot ended: "idle", "error", "plotted"
    pf            \* calculate_power applied as a function

main_vars == <<pc, envelopes, paths, ax, Q, H, out, stderr>>
gui_vars == <<g_envelopes, g_nfigs, g_ax, g_dialogs, g_out, g_last>>
vars == <<entry, main_vars, gui_vars, pf>>

PfIdle ==
    [qa |-> 0, ha |-> 0, qb |-> 0, hb |-> 0, label |-> "None", done |-> FALSE,
     pa |-> Dec(0, 0), pb |-> Dec(0, 0), ga |-> Dec(0, 0), gb |-> Dec(0, 0)]

ProgramInit ==
    /\ pc = "start"
    /\ envelopes = <<>>
    /\ paths = <<>>
    /\ ax = NewAxes
    /\ Q = <<>>
    /\ H = <<>>
    /\ out = NoOutcome
    /\ stderr = <<>>
    /\ g_envelopes = <<>>
    /\ g_nfigs = 0
    /\ g_ax = NewAxes
    /\ g_dialogs = 0
    /\ g_out = NoOutcome
    /\ g_last = "idle"

Init ==
    /\ entry \in {"console", "gui"}
    /\ ProgramInit
    /\ pf = PfIdle

(* main, lines 166-193: the envelopes, the figure, the patches, the curves  *)
MainSetup ==
    /\ entry = "console"
    /\ pc = "start"
    /\ LET drawn == plot_envelopes(NewAxes, define_envelopes)
       IN  /\ envelopes' = drawn.envelopes
           /\ paths' = drawn.paths
           /\ ax' = plot_power_curves(drawn.ax)
    /\ pc' = "askQ"
    /\ UNCHANGED <<entry, Q, H, out, stderr, gui_vars, pf>>

(* main, line 196: Q = float(input(...)); a ValueError is not caught        *)
MainInputQ ==
    /\ entry = "console"
    /\ pc = "askQ"
    /\ \E text \in QTexts :
          LET r == ParseFloat(text, 3)
          IN  IF r.ok
              THEN /\ Q' = <<r.val>>
                   /\ pc' = "askH"
                   /\ UNCHANGED stderr
              ELSE /\ pc' = "crashed"
                   /\ stderr' = Append(stderr, "ValueError")
                   /\ UNCHANGED Q
    /\ UNCHANGED <<entry, envelopes, paths, ax, H, out, gui_vars, pf>>

(* main, lines 197-242: H = float(input(...)), then the point, the          *)
(* classification, the powers, the title and plt.show()                     *)
MainInputH ==
    /\ entry = "console"
    /\ pc = "askH"
    /\ \E text \in HTexts :
          LET r == ParseFloat(text, 1)
          IN  IF r.ok
              THEN LET e == main_evaluate(ax, paths, Q[1], r.val)
                   IN  /\ H' = <<r.val>>
                       /\ out' = e.out
                       /\ ax' = e.ax
                       /\ pc' = "shown"
                       /\ UNCHANGED stderr
              ELSE /\ pc' = "crashed"
                   /\ stderr' = Append(stderr, "ValueError")
                   /\ UNCHANGED <<H, out, ax>>
    /\ UNCHANGED <<entry, envelopes, paths, Q, gui_vars, pf>>

(* the chart window is closed: plt.show() returns and main ends             *)
MainClose ==
    /\ entry = "console"
    /\ pc = "shown"
    /\ pc' = "exit"
    /\ UNCHANGED <<entry, envelopes, paths, ax, Q, H, out, stderr, gui_vars, pf>>

(* on_plot: one click on Plot, with the texts qt and ht that the fields     *)
(* q_entry and h_entry hold at the click                                    *)
OnPlot ==
    /\ entry = "gui"
    /\ g_nfigs + g_dialogs < MaxClicks
    /\ \E qt \in QTexts, ht \in HTexts :
          LET rq == ParseFloat(qt, 3)
              rh == ParseFloat(ht, 1)
          IN  IF rq.ok /\ rh.ok
              THEN LET r == create_plot(g_ax, rq.val, rh.val)
                   IN  /\ g_envelopes' = r.envelopes
                       /\ g_nfigs' = g_nfigs + 1
                       /\ g_ax' = r.ax
                       /\ g_out' = r.out
                       /\ g_last' = "plotted"
                       /\ UNCHANGED g_dialogs
              ELSE /\ g_dialogs' = g_dialogs + 1
                   /\ g_out' = NoOutcome
                   /\ g_last' = "error"
                   /\ UNCHANGED <<g_envelopes, g_nfigs, g_ax>>
    /\ UNCHANGED <<entry, main_vars, pf>>

(* calculate_power as a function: two points and a label, drawn at the      *)
(* start, to which both programs' calculate_power are applied               *)
PowerQ == {-1000, 0, 50, 5000, 50000}
PowerH == {-50, 0, 10, 2000, 5000}
Labels == {"Pelton", "Francis", "Kaplan", "None", "pelton", "Turgo"}

PowerInit ==
    /\ entry = "function"
    /\ ProgramInit
    /\ pf \in {[PfIdle EXCEPT !.qa = a, !.ha = b, !.qb = c, !.hb = d, !.label = l] :
                  a \in PowerQ, b \in PowerH, c \in PowerQ, d \in PowerH, l \in Labels}

PowerCall ==
    /\ entry = "function"
    /\ ~pf.done
    /\ pf' = [pf EXCEPT !.done = TRUE,
                        !.pa = calculate_power(pf.qa, pf.ha, pf.label),
                        !.pb = calculate_power(pf.qb, pf.hb, pf.label),
                        !.ga = gui_calculate_power(pf.qa, pf.ha, pf.label),
                        !.gb = gui_calculate_power(pf.qb, pf.hb, pf.label)]
    /\ UNCHANGED <<entry, main_vars, gui_vars>>

Next == MainSetup \/ MainInputQ \/ MainInputH \/ MainClose \/ OnPlot

Spec == Init /\ [][Next]_vars

SpecPower == PowerInit /\ [][PowerCall]_vars


-----------------------------------------------------------------------------
(* The evaluations a state holds: the point, the names returned, and the    *)
(* vertex lists the program defines.                                        *)

MainDone == entry = "console" /\ pc \in {"shown", "exit"}

GuiDone == entry = "gui" /\ g_last = "plotted"

GuiQ == g_ax.points[Len(g_ax.points)][1]

GuiH == g_ax.points[Len(g_ax.points)][2]

InSeq(x, seq) == \E i \in 1..Len(seq) : seq[i] = x

(* Polygon geometry, independent of the crossing test above: the winding    *)
(* number of the closed polygon pts around a point, and the point lying on  *)
(* one of its edges.                                                        *)

EdgeTo(pts, k) == pts[(k % Len(pts)) + 1]

UpCross(a, b, px, py) ==
    /\ a[2] <= py
    /\ b[2] > py
    /\ (b[1] - a[1]) * (py - a[2]) > (px - a[1]) * (b[2] - a[2])

DownCross(a, b, px, py) ==
    /\ a[2] > py
    /\ b[2] <= py
    /\ (b[1] - a[1]) * (py - a[2]) < (px - a[1]) * (b[2] - a[2])

Winding(pts, px, py) ==
    Cardinality({k \in 1..Len(pts) : UpCross(pts[k], EdgeTo(pts, k), px, py)})
    - Cardinality({k \in 1..Len(pts) : DownCross(pts[k], EdgeTo(pts, k), px, py)})

Between(x, u, v) == (u <= x /\ x <= v) \/ (v <= x /\ x <= u)

OnEdge(a, b, px, py) ==
    /\ Between(px, a[1], b[1])
    /\ Between(py, a[2], b[2])
    /\ (b[1] - a[1]) * (py - a[2]) = (px - a[1]) * (b[2] - a[2])

OnBoundary(pts, px, py) ==
    \E k \in 1..Len(pts) : OnEdge(pts[k], EdgeTo(pts, k), px, py)

StrictlyInside(pts, px, py) == ~OnBoundary(pts, px, py) /\ Winding(pts, px, py) # 0

StrictlyOutside(pts, px, py) == ~OnBoundary(pts, px, py) /\ Winding(pts, px, py) = 0

InsideNames(envs, px, py) ==
    {envs[i].name : i \in {j \in 1..Len(envs) : StrictlyInside(envs[j].pts, px, py)}}

OutsideNames(envs, px, py) ==
    {envs[i].name : i \in {j \in 1..Len(envs) : StrictlyOutside(envs[j].pts, px, py)}}

SeqSet(seq) == {seq[i] : i \in 1..Len(seq)}

(* the claim as first stated: the names returned, against the envelopes     *)
(* the point is strictly inside of and strictly outside of                  *)
ClassifierAsStated(envs, px, py, suitable) ==
    LET inside == InsideNames(envs, px, py)
    IN  /\ Cardinality(inside) = 1 => SeqSet(suitable) = inside
        /\ Cardinality(inside) = 2 => inside \subseteq SeqSet(suitable)
        /\ OutsideNames(envs, px, py) \cap SeqSet(suitable) = {}

(* the same, the first case for a point that is also strictly outside the   *)
(* two other envelopes                                                      *)
ClassifierAmended(envs, px, py, suitable) ==
    LET inside  == InsideNames(envs, px, py)
        outside == OutsideNames(envs, px, py)
    IN  /\ inside \subseteq SeqSet(suitable)
        /\ outside \cap SeqSet(suitable) = {}
        /\ (Cardinality(inside) = 1 /\ Cardinality(outside) = 2)
               => SeqSet(suitable) = inside
        /\ Cardinality(inside) = 2 => SeqSet(suitable) = inside
        /\ Len(suitable) = Cardinality(SeqSet(suitable))

(* C1, as stated: a point strictly inside exactly one envelope gets exactly *)
(* that name, a point strictly inside two gets both, and no name of an      *)
(* envelope the point is strictly outside of is returned.                   *)
C1_AsStated ==
    /\ MainDone => ClassifierAsStated(define_envelopes, Q[1], H[1], out.suitable)
    /\ GuiDone => ClassifierAsStated(gui_define_envelopes, GuiQ, GuiH, g_out.suitable)

(* C1, amended: every envelope the point is strictly inside of is returned, *)
(* none the point is strictly outside of is, each name once; so a point     *)
(* strictly inside one envelope and strictly outside the two others gets    *)
(* exactly that name, and a point strictly inside two gets exactly both.    *)
(* An envelope on whose boundary the point lies may or may not be returned. *)
C1_Classifier ==
    /\ MainDone => ClassifierAmended(define_envelopes, Q[1], H[1], out.suitable)
    /\ GuiDone => ClassifierAmended(gui_define_envelopes, GuiQ, GuiH, g_out.suitable)

(* C1 witness: a point strictly inside Pelton and Francis has been          *)
(* classified, as Pelton and Francis                                        *)
C1_Witness ==
    /\ MainDone
    /\ InsideNames(define_envelopes, Q[1], H[1]) = {"Pelton", "Francis"}
    /\ out.suitable = <<"Pelton", "Francis">>

-----------------------------------------------------------------------------
(* The power as the specification writes it: 998 * 9.81 * Q * H * eta /     *)
(* 1000 kW, for Q in thousandths, H in tenths and eta in thousandths, as a  *)
(* decimal of twelve places.                                                *)

StatedPower(q, h, eta) ==
    LET mag == BigMul(BigMul(BigMul(BigMul(BigOf(eta), 998), 981), Abs(q)), Abs(h))
    IN  [neg |-> (q # 0 /\ h # 0) /\ ((q < 0) # (h < 0)), mag |-> mag, exp |-> 12]

StatedEta(label) ==
    CASE label = "Pelton"  -> 915
      [] label = "Francis" -> 945
      [] label = "Kaplan"  -> 940
      [] OTHER             -> 880

(* C2: calculate_power(Q, H, label) is 998 * 9.81 * Q * H * eta / 1000 with *)
(* eta 0.915 for 'Pelton', 0.945 for 'Francis', 0.94 for 'Kaplan' and 0.88  *)
(* for every other label, None and near-misses such as 'pelton' included,   *)
(* in the console script and in the form alike.                             *)
C2_Power ==
    pf.done =>
        /\ pf.pa = StatedPower(pf.qa, pf.ha, StatedEta(pf.label))
        /\ pf.pb = StatedPower(pf.qb, pf.hb, StatedEta(pf.label))
        /\ pf.ga = StatedPower(pf.qa, pf.ha, StatedEta(pf.label))
        /\ pf.gb = StatedPower(pf.qb, pf.hb, StatedEta(pf.label))

(* C2 witness: the power of a near-miss label has been computed, with the   *)
(* default efficiency, for a point whose power is not 0                     *)
C2_Witness ==
    /\ pf.done
    /\ pf.label = "pelton"
    /\ pf.qa > 0
    /\ pf.ha > 0
    /\ pf.pa = StatedPower(pf.qa, pf.ha, 880)

(* C4, as stated: for every H and Q1 < Q2 the power at (Q1, H) is less than *)
(* the power at (Q2, H), and for every Q and H1 < H2 the power at (Q, H1)   *)
(* is less than the power at (Q, H2).                                       *)
C4_AsStated ==
    pf.done =>
        /\ (pf.ha = pf.hb /\ pf.qa < pf.qb)
               => DecLess(pf.pa, pf.pb) /\ DecLess(pf.ga, pf.gb)
        /\ (pf.qa = pf.qb /\ pf.ha < pf.hb)
               => DecLess(pf.pa, pf.pb) /\ DecLess(pf.ga, pf.gb)

(* a < b when the other factor is positive, a = b when it is 0, b < a when  *)
(* it is negative                                                           *)
OrderedBy(other, a, b) ==
    /\ other > 0 => DecLess(a, b)
    /\ other = 0 => a = b
    /\ other < 0 => DecLess(b, a)

(* C4, amended: for a fixed label the power is increasing in Q for every    *)
(* H > 0 and increasing in H for every Q > 0; where the other factor is 0   *)
(* the power is constant (0), and where it is negative the power is         *)
(* decreasing.                                                              *)
C4_Monotonic ==
    pf.done =>
        /\ (pf.ha = pf.hb /\ pf.qa < pf.qb)
               => OrderedBy(pf.ha, pf.pa, pf.pb) /\ OrderedBy(pf.ha, pf.ga, pf.gb)
        /\ (pf.qa = pf.qb /\ pf.ha < pf.hb)
               => OrderedBy(pf.qa, pf.pa, pf.pb) /\ OrderedBy(pf.qa, pf.ga, pf.gb)

(* C4 witness: two heads at one positive flow rate, with the smaller power  *)
(* at the smaller head                                                      *)
C4_Witness ==
    /\ pf.done
    /\ pf.qa = pf.qb
    /\ pf.qa > 0
    /\ 0 < pf.ha
    /\ pf.ha < pf.hb
    /\ DecLess(pf.pa, pf.pb)

-----------------------------------------------------------------------------
Closed(pts) == pts \o <<pts[1]>>

Containing(envs, px, py) ==
    {envs[i].name : i \in {j \in 1..Len(envs) : contains_point(Closed(envs[j].pts), px, py)}}

EvaluationAsClaimed(envs, px, py, o) ==
    LET containing == Containing(envs, px, py)
    IN  /\ InSeq("None", o.calls) <=> containing = {}
        /\ containing = {} =>
              /\ o.suitable = <<>>
              /\ o.calls = <<"None">>
              /\ o.approx = <<StatedPower(px, py, 880)>>
              /\ o.powers = <<>>
        /\ containing # {} =>
              /\ SeqSet(o.suitable) = containing
              /\ Len(o.suitable) = Cardinality(containing)
              /\ o.calls = o.suitable
              /\ o.approx = NoPower
              /\ Len(o.powers) = Len(o.suitable)
              /\ \A i \in 1..Len(o.powers) :
                    /\ o.powers[i].turbine = o.suitable[i]
                    /\ o.powers[i].power =
                           StatedPower(px, py, StatedEta(o.suitable[i]))

(* C3: in one evaluation the default efficiency is used if and only if no   *)
(* envelope contains the point; then the result is empty and one power is   *)
(* computed; otherwise one power is computed for each matched name, with    *)
(* that name's efficiency, and none for a name that is not matched.         *)
C3_Evaluation ==
    /\ MainDone => EvaluationAsClaimed(define_envelopes, Q[1], H[1], out)
    /\ GuiDone => EvaluationAsClaimed(gui_define_envelopes, GuiQ, GuiH, g_out)

(* C3 witness: the form has evaluated a point that two envelopes contain    *)
(* and computed two powers, none of them 0                                  *)
C3_Witness ==
    /\ GuiDone
    /\ Len(g_out.suitable) = 2
    /\ g_out.calls = g_out.suitable
    /\ g_out.powers[1].power.mag # <<>>
    /\ g_out.powers[1].power # g_out.powers[2].power

(* C5: when the text for Q or for H is not a number the error is reported   *)
(* to the user and the operation is aborted: the error does not escape as   *)
(* an uncaught exception, nothing is classified, computed or shown, and     *)
(* nothing built for the attempt remains.                                   *)
C5_RejectedInput ==
    /\ (entry = "console" /\ pc = "crashed") =>
          /\ stderr = <<>>
          /\ out = NoOutcome
          /\ ~ax.shown
          /\ ax = NewAxes
          /\ paths = <<>>
    /\ (entry = "gui" /\ g_last = "error") =>
          /\ g_dialogs > 0
          /\ g_out = NoOutcome

(* The powers of an evaluation, rounded to d places.                        *)
Rounded(o, d) ==
    IF o.approx # NoPower
    THEN <<DecRound(o.approx[1], d)>>
    ELSE [i \in 1..Len(o.powers) |-> DecRound(o.powers[i].power, d)]

MainAt(q, h) == MainDone /\ Q = <<q>> /\ H = <<h>>

GuiAt(q, h) == GuiDone /\ GuiQ = q /\ GuiH = h

(* C6, as stated: Q = 0.05, H = 500 is classified as Pelton alone and its   *)
(* power rounds to 224.1 kW at one decimal place.                           *)
C6_AsStated ==
    /\ MainAt(50, 5000) => out.suitable = <<"Pelton">> /\ Rounded(out, 1) = <<2241>>
    /\ GuiAt(50, 5000) => g_out.suitable = <<"Pelton">> /\ Rounded(g_out, 1) = <<2241>>

(* C6, amended: Q = 0.05, H = 500 is classified as Pelton alone and its     *)
(* power, 223.9549425 kW, rounds to 224.0 kW at one decimal place (223.95   *)
(* at the two places the chart prints).                                     *)
C6_Example ==
    /\ MainAt(50, 5000) =>
          /\ out.suitable = <<"Pelton">>
          /\ Rounded(out, 1) = <<2240>>
          /\ ax.annotations = << << <<"Pelton", 22395>> >> >>
    /\ GuiAt(50, 5000) =>
          /\ g_out.suitable = <<"Pelton">>
          /\ Rounded(g_out, 1) = <<2240>>
          /\ g_ax.annotations = << << <<"Pelton", 22395>> >> >>

(* C6 witness: the console script has evaluated Q = 0.05, H = 500           *)
C6_Witness == MainAt(50, 5000) /\ out.powers # <<>>

(* C7, as stated: Q = 50, H = 1 is matched by no envelope and its power     *)
(* with the default efficiency rounds to 430.7 kW at one decimal place.     *)
C7_AsStated ==
    /\ MainAt(50000, 10) => out.suitable = <<>> /\ Rounded(out, 1) = <<4307>>
    /\ GuiAt(50000, 10) => g_out.suitable = <<>> /\ Rounded(g_out, 1) = <<4307>>

(* C7, amended: Q = 50, H = 1 is matched by no envelope and its power with  *)
(* the default efficiency, 430.77672 kW, rounds to 430.8 kW at one decimal  *)
(* place (430.78 at the two places the chart prints).                       *)
C7_Example ==
    /\ MainAt(50000, 10) =>
          /\ out.suitable = <<>>
          /\ Rounded(out, 1) = <<4308>>
          /\ ax.annotations = << << <<"Approx. Power", 43078>> >> >>
    /\ GuiAt(50000, 10) =>
          /\ g_out.suitable = <<>>
          /\ Rounded(g_out, 1) = <<4308>>
          /\ g_ax.annotations = << << <<"Approx. Power", 43078>> >> >>

(* C7 witness: the form has evaluated Q = 50, H = 1                         *)
C7_Witness == GuiAt(50000, 10) /\ g_out.approx # NoPower

(* C8: the two programs define the same vertices and the same efficiency    *)
(* constants, and on every numeric (Q, H) either one returns what the other *)
(* returns there: the same names in the same order, the same power for each *)
(* name, the same default power when nothing matches.                       *)
C8_Equivalent ==
    /\ define_envelopes = gui_define_envelopes
    /\ \A l \in Labels : efficiencies_get(l) = gui_eff(l)
    /\ MainDone => out = create_plot(NewAxes, Q[1], H[1]).out
    /\ GuiDone =>
          g_out = main_evaluate(NewAxes,
                                plot_envelopes(NewAxes, define_envelopes).paths,
                                GuiQ, GuiH).out

(* C8 witness: the console script has returned two names and their powers   *)
C8_Witness ==
    /\ MainDone
    /\ out.suitable = <<"Francis", "Kaplan">>
    /\ Len(out.powers) = 2

(* C9: in the form, whatever clicks came before, a click with numeric       *)
(* inputs leaves what the same inputs leave as the first click of a fresh   *)
(* run (names, powers, chart), and the vertex lists are, after              *)
(* plot_envelopes, the ones define_envelopes wrote.                         *)
C9_HistoryFree ==
    GuiDone =>
        LET first == create_plot(NewAxes, GuiQ, GuiH)
        IN  /\ g_out = first.out
            /\ g_ax = first.ax
            /\ g_envelopes = first.envelopes
            /\ g_envelopes = gui_define_envelopes

(* C9 witness: a click with numeric inputs after an earlier chart           *)
C9_Witness ==
    /\ GuiDone
    /\ g_nfigs >= 2
    /\ g_out.suitable # <<>>

AllowedResults ==
    {<<>>, <<"Pelton">>, <<"Francis">>, <<"Kaplan">>,
     <<"Pelton", "Francis">>, <<"Francis", "Kaplan">>}

OutOfRange(q, h) == h < 20 \/ h > 10000 \/ q < 20 \/ q > 100000

VerticesOf(envs, name) ==
    UNION {SeqSet(envs[i].pts) : i \in {j \in 1..Len(envs) : envs[j].name = name}}

(* C10: every Pelton vertex has H >= 60 and every Kaplan vertex H <= 48;    *)
(* the result is never all three names, it is one of {}, {Pelton},          *)
(* {Francis}, {Kaplan}, {Pelton, Francis}, {Francis, Kaplan}; and a point   *)
(* with H < 2, H > 1000, Q < 0.02 or Q > 100 is matched by no envelope.     *)
C10_Results ==
    /\ \A envs \in {define_envelopes, gui_define_envelopes} :
          /\ \A v \in VerticesOf(envs, "Pelton") : v[2] >= 600
          /\ \A v \in VerticesOf(envs, "Kaplan") : v[2] <= 480
    /\ MainDone =>
          /\ out.suitable \in AllowedResults
          /\ OutOfRange(Q[1], H[1]) => out.suitable = <<>>
    /\ GuiDone =>
          /\ g_out.suitable \in AllowedResults
          /\ OutOfRange(GuiQ, GuiH) => g_out.suitable = <<>>

(* C10 witness: a point above every envelope has been classified, and no    *)
(* envelope matched it                                                      *)
C10_Witness ==
    /\ MainDone
    /\ Q[1] >= 20
    /\ Q[1] <= 100000
    /\ H[1] > 10000
    /\ out.suitable = <<>>

=============================================================================
